---- MODULE Spec2Model ----
(***************************************************************************)
(* The persistent interval store of timewarrior: Database.cpp on top of    *)
(* the month-sharded Datafiles, the tag sidecar (tags.data) and the undo   *)
(* journal.                                                                *)
(*                                                                         *)
(* Time is a line of small integers.  Month m covers the instants          *)
(* [m * MonthLen, (m+1) * MonthLen); the instant 0 is the epoch, which the *)
(* code uses as the "open end" sentinel.  A Datafile is named by its       *)
(* month (YYYY-MM.data), so a file name is the month number.               *)
(***************************************************************************)
EXTENDS Integers, Sequences, FiniteSets, Bags, TLC

\* ------------------------------------------------------------------ bounds
NumMonths == 2      \* calendar months the inputs range over: 1..NumMonths
MaxLines  == 2      \* no call is made that would leave more lines in the store
MaxAdds   == 3      \* the intervals a test adds before it commits

\* the instants of a month, as offsets from its first instant (day 1, 00:00)
Offsets  == {0, 1}
MonthLen == Cardinality(Offsets)

Months   == 1..NumMonths
Instants == MonthLen .. ((NumMonths + 1) * MonthLen - 1)
Tags     == {1, 2}

\* ------------------------------------------------------------ Datetime, Range
\* Datetime::year()/month() of an instant, as one month number
MonthOf(t) == t \div MonthLen

\* Datetime (y, m, 1): the first instant of a month
MonthStart(m) == m * MonthLen

\* Range::startsWithin: self.start lies in [other.start, other.end)
startsWithin(r, other) == other.start <= r.start /\ r.start < other.end

\* Datafile::range(): [first day of the month, first day of the next month)
DatafileRange(name) == [start |-> MonthStart(name), end |-> MonthStart(name + 1)]

\* ------------------------------------------------------------------ Interval
\* Interval (): the empty interval (empty range, no tags)
EmptyInterval == [start |-> 0, end |-> 0, tags |-> {}]

\* Interval::empty ()
IsEmptyInterval(iv) == iv.start = 0 /\ iv.end = 0 /\ iv.tags = {}

\* the closed intervals of one instant with the given starts and tag sets
ClosedIntervals(starts, tagsets) ==
  { [start |-> s, end |-> s + 1, tags |-> T] : s \in starts, T \in tagsets }

\* the open intervals (end = 0) with the given starts and tag sets
OpenIntervals(starts, tagsets) ==
  { [start |-> s, end |-> 0, tags |-> T] : s \in starts, T \in tagsets }

\* the tags of an interval in the order std::set iterates them (ascending)
RECURSIVE SortedSeq(_)
SortedSeq(S) ==
  IF S = {} THEN <<>>
  ELSE LET m == CHOOSE x \in S : \A y \in S : x <= y
       IN  <<m>> \o SortedSeq(S \ {m})

\* Interval::serialize (): "inc START - END # tag tag ..." as one flat line
Serialize(iv) == <<iv.start, iv.end>> \o SortedSeq(iv.tags)

\* IntervalFactory::fromSerialization: the interval a line stands for
FromSerialization(line) ==
  [start |-> line[1], end |-> line[2],
   tags  |-> { line[i] : i \in 3..Len(line) }]

\* Interval::json (): the payload of an undo record (never the empty string)
Json(iv) == <<iv.start, iv.end, SortedSeq(iv.tags)>>

\* ------------------------------------------------------------------ Datafile
\* a Datafile just constructed from its name: nothing loaded, nothing dirty
NewDatafile(name) ==
  [name |-> name, lines |-> <<>>, loaded |-> FALSE, dirty |-> FALSE]

\* the lines of YYYY-MM.data on disk (none when the file does not exist)
DiskLines(disk, name) == IF name \in DOMAIN disk THEN disk[name] ELSE <<>>

\* Datafile::allLines (): the lines, read from disk on first access
allLines(f, disk) == IF f.loaded THEN f.lines ELSE DiskLines(disk, f.name)

\* Datafile::load_lines: the Datafile after its first access
Loaded(f, disk) == [f EXCEPT !.lines = allLines(f, disk), !.loaded = TRUE]

\* lexicographic order of two sequences of numbers (raw bytes tie break)
RECURSIVE SeqLess(_, _)
SeqLess(a, b) ==
  IF b = <<>> THEN FALSE
  ELSE IF a = <<>> THEN TRUE
  ELSE IF Head(a) # Head(b) THEN Head(a) < Head(b)
  ELSE SeqLess(Tail(a), Tail(b))

\* the order of the lines of a Datafile: by start, then by end with an open
\* end after every closed one, then by the serialized text
LineLess(a, b) ==
  \/ a[1] < b[1]
  \/ /\ a[1] = b[1]
     /\ \/ (a[2] # 0 /\ b[2] = 0)
        \/ (a[2] # 0 /\ b[2] # 0 /\ a[2] < b[2])
        \/ (a[2] = b[2] /\ SeqLess(SubSeq(a, 3, Len(a)), SubSeq(b, 3, Len(b))))

\* std::lower_bound: the first position whose line is not before `line`
LowerBound(lines, line) ==
  LET ge == { i \in 1..Len(lines) : ~LineLess(lines[i], line) }
  IN  IF ge = {} THEN Len(lines) + 1 ELSE CHOOSE i \in ge : \A j \in ge : i <= j

InsertAt(s, i, x) == SubSeq(s, 1, i - 1) \o <<x>> \o SubSeq(s, i, Len(s))
RemoveAt(s, i)    == SubSeq(s, 1, i - 1) \o SubSeq(s, i + 1, Len(s))

\* Datafile::addInterval: load, insert the line at its sorted position
DatafileAdd(f, disk, iv) ==
  LET g == Loaded(f, disk)
      l == Serialize(iv)
  IN  [g EXCEPT !.lines = InsertAt(g.lines, LowerBound(g.lines, l), l),
                !.dirty = TRUE]

\* Datafile::addInterval's result: true iff the file was changed
DatafileAddChanged(f, disk, iv) == TRUE

\* Datafile::deleteInterval: load, remove the first line equal to the
\* serialization; an absent line is tolerated
DatafileDelete(f, disk, iv) ==
  LET g   == Loaded(f, disk)
      l   == Serialize(iv)
      hit == { i \in 1..Len(g.lines) : g.lines[i] = l }
  IN  IF hit = {} THEN g
      ELSE [g EXCEPT !.lines = RemoveAt(g.lines, CHOOSE i \in hit : \A j \in hit : i <= j),
                     !.dirty = TRUE]

\* Datafile::commit: write the line list when dirty; the Datafile afterwards
DatafileCommitted(f) == [f EXCEPT !.dirty = FALSE]

\* ------------------------------------------------------------- findDatafile
\* The loop of findDatafile from reverse position i (an index into files,
\* Len(files) = rbegin) down to the front.  The result is a position in
\* 1..Len(files)+1, Len(files)+1 being files->end ().
RECURSIVE findFrom(_, _, _)
findFrom(range, files, i) ==
  IF i = 0 THEN 1                                   \* return files->begin ()
  ELSE IF startsWithin(range, DatafileRange(files[i].name)) THEN i
  ELSE IF DatafileRange(files[i].name).end < range.start THEN i + 1
  ELSE findFrom(range, files, i - 1)

findDatafile(range, files) == findFrom(range, files, Len(files))

\* faulty variant: the test of getDatafile taken as true: a Datafile is always emplaced
getDatafileAlwaysCreates(iv, files) == TRUE

\* getDatafile: the position of the Datafile for the interval, and the list
\* with a new Datafile emplaced at that position when findDatafile found none
getDatafileCreates(iv, files) ==
  LET it == findDatafile(iv, files)
  IN  it = Len(files) + 1 \/ ~startsWithin(iv, DatafileRange(files[it].name))

getDatafileFiles(iv, files) ==
  IF getDatafileCreates(iv, files)
  THEN InsertAt(files, findDatafile(iv, files), NewDatafile(MonthOf(iv.start)))
  ELSE files

getDatafilePos(iv, files) == findDatafile(iv, files)

\* ----------------------------------------------------------- TagInfoDatabase
\* The Tag Index is a function from the tags it holds to their counts.
NoTags == <<>>

\* TagInfoDatabase::incrementTag: a tag not yet held is added with count 1
incrementTag(tags, t) ==
  IF t \in DOMAIN tags THEN [tags EXCEPT ![t] = @ + 1] ELSE (t :> 1) @@ tags

\* TagInfoDatabase::decrementTag: clamped at zero; entries are only created
\* by an increment, so a tag that is not held stays absent
decrementTag(tags, t) ==
  IF t \in DOMAIN tags /\ tags[t] > 0 THEN [tags EXCEPT ![t] = @ - 1] ELSE tags

\* whether decrementTag marks the index modified
decrementTouches(tags, t) == t \in DOMAIN tags

\* TagInfoDatabase::add
addTag(tags, t, count) ==
  IF t \in DOMAIN tags THEN [tags EXCEPT ![t] = count] ELSE (t :> count) @@ tags

\* the loop "for (auto& tag : interval.tags ()) incrementTag (tag)"
RECURSIVE incrementAll(_, _)
incrementAll(tags, ts) ==
  IF ts = <<>> THEN tags ELSE incrementAll(incrementTag(tags, Head(ts)), Tail(ts))

\* the loop "for (auto& tag : interval.tags ()) decrementTag (tag)"
RECURSIVE decrementAll(_, _)
decrementAll(tags, ts) ==
  IF ts = <<>> THEN tags ELSE decrementAll(decrementTag(tags, Head(ts)), Tail(ts))

\* TagInfoDatabase::toJson: { "<tag>": { "count": <n> }, ... }
toJson(tags) ==
  [kind |-> "object", data |-> [t \in DOMAIN tags |-> [count |-> tags[t]]]]

\* tags.data does not exist
MissingFile == [kind |-> "missing", data |-> <<>>]

\* tags.data with no content, and with content that is no JSON object
EmptyFile   == [kind |-> "empty", data |-> <<>>]
GarbageFile == [kind |-> "garbage", data |-> <<>>]

\* ------------------------------------------------------------------- Journal
\* The journal is the sequence of its transactions, oldest first; each
\* transaction is the sequence of its undo records.  It is written through
\* to undo.data on every record, so the variable is the file as well.
UndoAction(type, before, after) == [type |-> type, before |-> before, after |-> after]

\* the empty payload ""
NoPayload == <<>>

\* faulty variant: pruning that keeps the oldest transactions
PrunedFromNewest(j, size) ==
  IF size > 0 /\ Len(j) > size THEN SubSeq(j, 1, size) ELSE j

\* pruning to max_transactions drops from the oldest end (0: unbounded)
Pruned(j, size) ==
  IF size > 0 /\ Len(j) > size THEN SubSeq(j, Len(j) - size + 1, Len(j)) ELSE j

\* Journal::recordIntervalAction with no transaction open: one transaction
\* of one record
recordIntervalAction(j, size, before, after) ==
  Pruned(Append(j, <<UndoAction("interval", before, after)>>), size)

\* a call that returns normally ends with no error
NoError  == ""

\* The transaction a caller has opened, with the records made in it so far:
\* the journal is Closed when open is FALSE.
NoTxn == [open |-> FALSE, records |-> <<>>]

AlreadyOpen == "Subsequent call to start transaction"

\* Journal::startTransaction: a start within an open transaction is an error
startTransaction(db) ==
  IF db.txn.open
  THEN [db EXCEPT !.thrown = AlreadyOpen, !.out = <<>>]
  ELSE [db EXCEPT !.txn = [open |-> TRUE, records |-> <<>>],
                  !.thrown = NoError, !.out = <<>>]

\* Journal::endTransaction: the records made since the start become one
\* transaction of the journal; a transaction without records leaves none
endTransaction(db) ==
  [db EXCEPT
     !.journal = IF db.txn.open /\ db.txn.records # <<>>
                 THEN Pruned(Append(db.journal, db.txn.records), db.jsize)
                 ELSE db.journal,
     !.txn     = NoTxn,
     !.thrown  = NoError,
     !.out     = <<>>]

\* Journal::recordIntervalAction: within the open transaction if there is
\* one, else as a transaction of its own
journalAfterRecord(db, before, after) ==
  IF db.txn.open THEN db.journal
  ELSE recordIntervalAction(db.journal, db.jsize, before, after)

txnAfterRecord(db, before, after) ==
  IF db.txn.open
  THEN [db.txn EXCEPT !.records = Append(@, UndoAction("interval", before, after))]
  ELSE db.txn

\* the records of a transaction, last recorded first
RECURSIVE ReverseOrder(_)
ReverseOrder(records) ==
  IF records = <<>> THEN <<>>
  ELSE Append(ReverseOrder(Tail(records)), Head(records))

\* faulty variant: undo that returns the records in the order recorded
undoInRecordedOrder(db) ==
  IF db.journal = <<>>
  THEN [db EXCEPT !.thrown = NoError, !.out = <<>>]
  ELSE [db EXCEPT
          !.journal = SubSeq(db.journal, 1, Len(db.journal) - 1),
          !.thrown  = NoError,
          !.out     = db.journal[Len(db.journal)]]

\* Journal::undo, called with no transaction open: the newest transaction is
\* removed and its records are returned in reverse order (`out`); an empty
\* journal returns none
undo(db) ==
  IF db.journal = <<>>
  THEN [db EXCEPT !.thrown = NoError, !.out = <<>>]
  ELSE [db EXCEPT
          !.journal = SubSeq(db.journal, 1, Len(db.journal) - 1),
          !.thrown  = NoError,
          !.out     = ReverseOrder(db.journal[Len(db.journal)])]

\* ------------------------------------------------------- Database::iterator
\* A forward iterator is the pair of cursors (fi, li): fi walks the file
\* list from the back (Len(files) = _files.rbegin (), 0 = _files.rend ()),
\* li walks the lines of file fi from the back (0 = lines.rend ()).
LinesAt(files, disk, i) == allLines(files[i], disk)

\* faulty variant: a constructor that does not skip the files that hold no line
iteratorCtorLoopSkipsNothing(files, disk, it) == it

\* the loop of the constructor: skip the files that hold no line
RECURSIVE iteratorCtorLoop(_, _, _)
iteratorCtorLoop(files, disk, it) ==
  IF it.li = 0 /\ it.fi # 0
  THEN LET fi == it.fi - 1
       IN  iteratorCtorLoop(files, disk,
             [fi |-> fi, li |-> IF fi # 0 THEN Len(LinesAt(files, disk, fi)) ELSE it.li])
  ELSE it

\* iterator (fbegin, fend) with fend = _files.rend ()
iterator(files, disk, fbegin) ==
  IF fbegin # 0
  THEN iteratorCtorLoop(files, disk,
         [fi |-> fbegin, li |-> Len(LinesAt(files, disk, fbegin))])
  ELSE [fi |-> 0, li |-> 0]

\* faulty variant: the loop of operator++ that moves on by one Datafile only,
\* whether or not that Datafile holds a line
iteratorIncLoopStopsAtEmpty(files, disk, it) ==
  IF it.li = 0 /\ it.fi # 0
  THEN LET fi == it.fi - 1
       IN  [fi |-> fi, li |-> IF fi # 0 THEN Len(LinesAt(files, disk, fi)) ELSE it.li]
  ELSE it

\* the loop of operator++: advance to the next file that holds a line
RECURSIVE iteratorIncLoop(_, _, _)
iteratorIncLoop(files, disk, it) ==
  IF it.li = 0 /\ it.fi # 0
  THEN LET fi == it.fi - 1
       IN  iteratorIncLoop(files, disk,
             [fi |-> fi, li |-> IF fi # 0 THEN Len(LinesAt(files, disk, fi)) ELSE it.li])
  ELSE it

\* faulty variant: operator++ that leaves the Datafile after one line
iteratorIncLeavesFile(files, disk, it) ==
  IF it.fi # 0 /\ it.li # 0
  THEN iteratorIncLoop(files, disk, [it EXCEPT !.li = 0])
  ELSE it

\* iterator::operator++
iteratorInc(files, disk, it) ==
  IF it.fi # 0 /\ it.li # 0
  THEN iteratorIncLoop(files, disk, [it EXCEPT !.li = @ - 1])
  ELSE it

\* iterator::operator== (files_end is _files.rend () on both sides)
iteratorEq(it, other) ==
  IF other.fi = 0 THEN it.fi = 0 ELSE it.fi = other.fi /\ it.li = other.li

\* iterator::operator*
iteratorDeref(files, disk, it) == LinesAt(files, disk, it.fi)[it.li]

\* Database::begin, Database::end
begin(files, disk) == iterator(files, disk, Len(files))
end(files, disk)   == iterator(files, disk, 0)

\* Database::empty
empty(files, disk) == iteratorEq(begin(files, disk), end(files, disk))

\* the lines a loop "for (it = begin (); it != end (); ++it)" visits, in order
RECURSIVE ForwardFrom(_, _, _)
ForwardFrom(files, disk, it) ==
  IF iteratorEq(it, end(files, disk)) THEN <<>>
  ELSE <<iteratorDeref(files, disk, it)>>
         \o ForwardFrom(files, disk, iteratorInc(files, disk, it))

Forward(files, disk) == ForwardFrom(files, disk, begin(files, disk))

\* ----------------------------------------------- Database::reverse_iterator
\* A reverse iterator is (fi, li) with fi walking the file list from the
\* front (Len(files)+1 = _files.end ()) and li the lines of file fi from the
\* front (Len(lines)+1 = lines.end ()).
RECURSIVE reverseCtorLoop(_, _, _)
reverseCtorLoop(files, disk, it) ==
  IF it.fi # Len(files) + 1 /\ it.li = Len(LinesAt(files, disk, it.fi)) + 1
  THEN reverseCtorLoop(files, disk,
         [fi |-> it.fi + 1, li |-> IF it.fi + 1 # Len(files) + 1 THEN 1 ELSE it.li])
  ELSE it

\* reverse_iterator (fbegin, fend) with fend = _files.end ()
reverse_iterator(files, disk, fbegin) ==
  IF fbegin # Len(files) + 1
  THEN reverseCtorLoop(files, disk, [fi |-> fbegin, li |-> 1])
  ELSE [fi |-> fbegin, li |-> 1]

RECURSIVE reverseIncLoop(_, _, _)
reverseIncLoop(files, disk, it) ==
  IF it.fi # Len(files) + 1 /\ it.li = Len(LinesAt(files, disk, it.fi)) + 1
  THEN reverseIncLoop(files, disk,
         [fi |-> it.fi + 1, li |-> IF it.fi + 1 # Len(files) + 1 THEN 1 ELSE it.li])
  ELSE it

\* reverse_iterator::operator++
reverseInc(files, disk, it) ==
  IF it.fi # Len(files) + 1 /\ it.li # Len(LinesAt(files, disk, it.fi)) + 1
  THEN reverseIncLoop(files, disk, [it EXCEPT !.li = @ + 1])
  ELSE it

\* reverse_iterator::operator==
reverseEq(files, it, other) ==
  IF other.fi = Len(files) + 1 THEN it.fi = Len(files) + 1
  ELSE it.fi = other.fi /\ it.li = other.li

\* reverse_iterator::operator*
reverseDeref(files, disk, it) == LinesAt(files, disk, it.fi)[it.li]

\* Database::rbegin, Database::rend
rbegin(files, disk) == reverse_iterator(files, disk, 1)
rend(files, disk)   == reverse_iterator(files, disk, Len(files) + 1)

\* the lines a loop "for (it = rbegin (); it != rend (); ++it)" visits
RECURSIVE ReverseFrom(_, _, _)
ReverseFrom(files, disk, it) ==
  IF reverseEq(files, it, rend(files, disk)) THEN <<>>
  ELSE <<reverseDeref(files, disk, it)>>
         \o ReverseFrom(files, disk, reverseInc(files, disk, it))

Reverse(files, disk) == ReverseFrom(files, disk, rbegin(files, disk))

\* the Datafiles at positions lo..hi have been asked for their lines
LoadedBetween(files, disk, lo, hi) ==
  [i \in 1..Len(files) |->
     IF lo <= i /\ i <= hi THEN Loaded(files[i], disk) ELSE files[i]]

\* a traversal has called allLines () on every Datafile: all are loaded
LoadedAll(files, disk) == [i \in 1..Len(files) |-> Loaded(files[i], disk)]

\* ------------------------------------------------------------------ Database
\* The operations take and return the store as one record:
\*   files     _files, the Datafile list
\*   tags      _tagInfoDatabase, modified its is_modified () flag
\*   journal   _journal (and undo.data)
\*   disk      the YYYY-MM.data files of the location, by month
\*   tagsFile  tags.data
\*   thrown    the error the call ended with ("" when it returned)
\*   out       what the call wrote to stdout and stderr
NotFound == "Database failed to find file for deleted Interval"

\* journal_size, the second argument of Database::initialize
JournalSize == 1

\* faulty variant: addInterval that records the interval as the payload
\* before the change
addIntervalRecordsBefore(db, iv) ==
  LET ts    == SortedSeq(iv.tags)
      pos   == getDatafilePos(iv, db.files)
      fs    == getDatafileFiles(iv, db.files)
  IN  [db EXCEPT
         !.tags     = incrementAll(db.tags, ts),
         !.modified = db.modified \/ ts # <<>>,
         !.files    = [fs EXCEPT ![pos] = DatafileAdd(fs[pos], db.disk, iv)],
         !.journal  = journalAfterRecord(db, Json(iv), NoPayload),
         !.txn      = txnAfterRecord(db, Json(iv), NoPayload),
         !.thrown   = NoError,
         !.out      = <<>>]

\* Database::addInterval
addInterval(db, iv) ==
  LET ts    == SortedSeq(iv.tags)
      pos   == getDatafilePos(iv, db.files)
      fs    == getDatafileFiles(iv, db.files)
      chg   == DatafileAddChanged(fs[pos], db.disk, iv)
  IN  [db EXCEPT
         !.tags     = incrementAll(db.tags, ts),
         !.modified = db.modified \/ ts # <<>>,
         !.files    = [fs EXCEPT ![pos] = DatafileAdd(fs[pos], db.disk, iv)],
         !.journal  = IF chg THEN journalAfterRecord(db, NoPayload, Json(iv))
                      ELSE db.journal,
         !.txn      = IF chg THEN txnAfterRecord(db, NoPayload, Json(iv)) ELSE db.txn,
         !.thrown   = NoError,
         !.out      = <<>>]

\* faulty variant: deleteInterval without the loop that decrements the tags
deleteIntervalKeepsTags(db, iv) ==
  LET pos   == getDatafilePos(iv, db.files)
      fs    == getDatafileFiles(iv, db.files)
      fs2   == [fs EXCEPT ![pos] = DatafileDelete(fs[pos], db.disk, iv)]
  IN  [db EXCEPT
         !.files    = fs2,
         !.journal  = journalAfterRecord(db, Json(iv), NoPayload),
         !.txn      = txnAfterRecord(db, Json(iv), NoPayload),
         !.thrown   = NoError,
         !.out      = <<>>]

\* Database::deleteInterval
deleteInterval(db, iv) ==
  LET ts    == SortedSeq(iv.tags)
      pos   == getDatafilePos(iv, db.files)
      fs    == getDatafileFiles(iv, db.files)
      fs2   == [fs EXCEPT ![pos] = DatafileDelete(fs[pos], db.disk, iv)]
      it    == findDatafile(iv, fs2)
      fail  == it = Len(fs2) + 1 \/ ~startsWithin(iv, DatafileRange(fs2[it].name))
  IN  [db EXCEPT
         !.tags     = decrementAll(db.tags, ts),
         !.modified = db.modified \/ (\E t \in iv.tags : decrementTouches(db.tags, t)),
         !.files    = fs2,
         !.journal  = IF fail THEN db.journal
                      ELSE journalAfterRecord(db, Json(iv), NoPayload),
         !.txn      = IF fail THEN db.txn ELSE txnAfterRecord(db, Json(iv), NoPayload),
         !.thrown   = IF fail THEN NotFound ELSE NoError,
         !.out      = <<>>]

\* Database::modifyInterval: delete `from`, then add `to`; an exception of
\* deleteInterval ends the call
modifyInterval(db, from, to) ==
  LET d == IF ~IsEmptyInterval(from) THEN deleteInterval(db, from)
           ELSE [db EXCEPT !.thrown = NoError, !.out = <<>>]
  IN  IF d.thrown # NoError THEN d
      ELSE IF ~IsEmptyInterval(to) THEN addInterval(d, to)
      ELSE d

\* the loop of Database::commit over the first n Datafiles: each dirty one
\* writes its line list to its YYYY-MM.data
RECURSIVE commitFiles(_, _, _)
commitFiles(files, disk, n) ==
  IF n = 0 THEN disk
  ELSE LET d == commitFiles(files, disk, n - 1)
           f == files[n]
       IN  IF f.dirty
           THEN [m \in (DOMAIN d) \cup {f.name} |-> IF m = f.name THEN f.lines ELSE d[m]]
           ELSE d

\* Database::commit
commit(db) ==
  [db EXCEPT
     !.disk     = commitFiles(db.files, db.disk, Len(db.files)),
     !.files    = [i \in 1..Len(db.files) |-> DatafileCommitted(db.files[i])],
     !.tagsFile = IF db.modified THEN toJson(db.tags) ELSE db.tagsFile,
     !.thrown   = NoError,
     !.out      = <<>>]

\* Database::getLatestEntry: the first line of a forward traversal that is
\* not empty, or the empty line
RECURSIVE firstNonEmpty(_)
firstNonEmpty(lines) ==
  IF lines = <<>> THEN <<>>
  ELSE IF Head(lines) # <<>> THEN Head(lines)
  ELSE firstNonEmpty(Tail(lines))

getLatestEntry(files, disk) == firstNonEmpty(Forward(files, disk))

\* the files one call of commit writes, in the order it writes them: the loop
\* over _files up to position n, then tags.data if the Tag Index is modified
RECURSIVE datafileWrites(_, _)
datafileWrites(files, n) ==
  IF n = 0 THEN <<>>
  ELSE datafileWrites(files, n - 1)
         \o (IF files[n].dirty THEN <<[file |-> "datafile", name |-> files[n].name]>>
             ELSE <<>>)

TagsData == [file |-> "tags.data", name |-> 0]

commitWrites(db) ==
  datafileWrites(db.files, Len(db.files)) \o (IF db.modified THEN <<TagsData>> ELSE <<>>)

\* the error of a write that fails
WriteFailed == "Unable to write file"

\* faulty variant: a commit that, when the write of Datafile k fails, still
\* writes tags.data before it passes the error on
commitFailingWritesTags(db, k) ==
  [db EXCEPT
     !.disk     = commitFiles(db.files, db.disk, k - 1),
     !.files    = [i \in 1..Len(db.files) |->
                     IF i < k THEN DatafileCommitted(db.files[i]) ELSE db.files[i]],
     !.tagsFile = toJson(db.tags),
     !.thrown   = WriteFailed,
     !.out      = datafileWrites(db.files, k - 1) \o <<TagsData>>]

\* Database::commit when the write of the dirty Datafile at position k fails:
\* the Datafiles before k are committed, the rename of file k never happens,
\* the exception leaves the loop and the function
commitFailing(db, k) ==
  [db EXCEPT
     !.disk   = commitFiles(db.files, db.disk, k - 1),
     !.files  = [i \in 1..Len(db.files) |->
                   IF i < k THEN DatafileCommitted(db.files[i]) ELSE db.files[i]],
     !.thrown = WriteFailed,
     !.out    = datafileWrites(db.files, k - 1)]

\* IntervalFactory::fromJson on a payload of an undo record
FromJson(payload) ==
  [start |-> payload[1], end |-> payload[2],
   tags  |-> {payload[3][i] : i \in 1..Len(payload[3])}]

\* the undo command on the records that Journal::undo returned: a record
\* ("", x) is undone by deleteInterval (x), a record (x, "") by
\* addInterval (x); an error ends the loop
RECURSIVE applyInverse(_, _)
applyInverse(db, records) ==
  IF records = <<>> THEN [db EXCEPT !.thrown = NoError, !.out = <<>>]
  ELSE LET r == Head(records)
           d == IF r.before = NoPayload THEN deleteInterval(db, FromJson(r.after))
                ELSE IF r.after = NoPayload THEN addInterval(db, FromJson(r.before))
                ELSE modifyInterval(db, FromJson(r.after), FromJson(r.before))
       IN  IF d.thrown # NoError THEN d ELSE applyInverse(d, Tail(records))

\* ------------------------------------------------------------- segmentRange
\* the months of a year; month numbers count on from year 0
MonthsPerYear == 12

\* Datetime::year (), Datetime::month () (1..12)
year(t)  == MonthOf(t) \div MonthsPerYear
month(t) == (MonthOf(t) % MonthsPerYear) + 1

\* Datetime (y, m, 1)
Datetime(y, m) == MonthStart(y * MonthsPerYear + (m - 1))

\* Range::intersects, with end = 0 for an open range
intersects(r, other) ==
  /\ (other.end = 0 \/ r.start < other.end)
  /\ (r.end = 0 \/ other.start < r.end)

\* faulty variant: the loop of segmentRange that keeps every segment it
\* builds, whether or not the range intersects it
RECURSIVE segmentLoopKeepsAll(_, _, _, _, _, _)
segmentLoopKeepsAll(range, start_y, start_m, end_y, end_m, segments) ==
  IF start_y < end_y \/ (start_y = end_y /\ start_m <= end_m)
  THEN LET segmentStart == Datetime(start_y, start_m)
           next_y == IF start_m + 1 > MonthsPerYear THEN start_y + 1 ELSE start_y
           next_m == IF start_m + 1 > MonthsPerYear THEN 1 ELSE start_m + 1
           segment == [start |-> segmentStart, end |-> Datetime(next_y, next_m)]
       IN  segmentLoopKeepsAll(range, next_y, next_m, end_y, end_m,
                               Append(segments, segment))
  ELSE segments

\* the while loop of segmentRange
RECURSIVE segmentLoop(_, _, _, _, _, _)
segmentLoop(range, start_y, start_m, end_y, end_m, segments) ==
  IF start_y < end_y \/ (start_y = end_y /\ start_m <= end_m)
  THEN LET segmentStart == Datetime(start_y, start_m)
           next_y == IF start_m + 1 > MonthsPerYear THEN start_y + 1 ELSE start_y
           next_m == IF start_m + 1 > MonthsPerYear THEN 1 ELSE start_m + 1
           segment == [start |-> segmentStart, end |-> Datetime(next_y, next_m)]
       IN  segmentLoop(range, next_y, next_m, end_y, end_m,
                       IF intersects(range, segment)
                       THEN Append(segments, segment) ELSE segments)
  ELSE segments

\* Database::segmentRange; `now` is what Datetime () gives for an open end
segmentRange(range, now) ==
  LET range_end == IF range.end = 0 THEN now ELSE range.end
  IN  segmentLoop(range, year(range.start), month(range.start),
                  year(range_end), month(range_end), <<>>)

\* ---------------------------------------------------------------- CmdModify
\* the two errors the command raises once it has built the new interval
StartAfterEnd == "Cannot modify interval @{1} where start is after end."
CannotOverlap == "You cannot overlap intervals. Correct the start/end time, or specify the :adjust hint."

\* getTracked with an empty filter: the stored intervals, oldest first
getTracked(db) ==
  LET lines == Reverse(db.files, db.disk)
  IN  [i \in 1..Len(lines) |-> FromSerialization(lines[i])]

\* validate: an interval that overlaps a stored one is rejected
validateRejects(db, iv) ==
  \E i \in 1..Len(getTracked(db)) : intersects(iv, getTracked(db)[i])

\* the checks of the words and ids of the command line: the error, or ""
wordsError(words, ids) ==
  IF words = <<>>
  THEN "Must specify start|stop command to modify. See 'timew help modify'."
  ELSE IF words[1] \notin {"start", "stop"}
  THEN "'{1}' is an invalid argument for modify. See 'timew help modify'."
  ELSE IF ids = <<>> THEN "ID must be specified. See 'timew help modify'."
  ELSE IF Len(ids) > 1 THEN "Only one ID may be specified. See 'timew help modify'."
  ELSE NoError

\* the checks of the id against the tracked intervals, and of the time
trackedError(id, tracked, time) ==
  IF id > Len(tracked) THEN "ID '@{1}' does not correspond to any tracking."
  ELSE IF tracked[Len(tracked) - id + 1].end = 0 THEN "Cannot modify open interval @{1}."
  ELSE IF time = 0 THEN "No updated time specified. See 'timew help modify'."
  ELSE NoError

\* the interval the command builds from interval @id and the time given
withTime(interval, op, time) ==
  IF op = "stop" THEN [interval EXCEPT !.end = time]
  ELSE [interval EXCEPT !.start = time]

\* the last three statements of CmdModify
deleteValidateAdd(db, old, new) ==
  LET d == deleteInterval(db, old)
  IN  IF d.thrown # NoError THEN d
      ELSE IF validateRejects(d, new) THEN [d EXCEPT !.thrown = CannotOverlap]
      ELSE addInterval(d, new)

\* faulty variant: CmdModify with the check of start against end made
\* after the interval was deleted
CmdModifyChecksLate(db, words, ids, time) ==
  LET loaded   == [db EXCEPT !.files = LoadedAll(db.files, db.disk)]
      tracked  == getTracked(db)
      interval == tracked[Len(tracked) - ids[1] + 1]
      new      == withTime(interval, words[1], time)
  IN  IF wordsError(words, ids) # NoError
      THEN [db EXCEPT !.thrown = wordsError(words, ids), !.out = <<>>]
      ELSE IF trackedError(ids[1], tracked, time) # NoError
      THEN [loaded EXCEPT !.thrown = trackedError(ids[1], tracked, time), !.out = <<>>]
      ELSE IF new.start > new.end
      THEN [deleteInterval(loaded, interval) EXCEPT !.thrown = StartAfterEnd]
      ELSE deleteValidateAdd(loaded, interval, new)

\* CmdModify: words are the words of the command line, ids its @ids and
\* time the start of its filter range (0 when no time was given)
CmdModify(db, words, ids, time) ==
  LET loaded   == [db EXCEPT !.files = LoadedAll(db.files, db.disk)]
      tracked  == getTracked(db)
      interval == tracked[Len(tracked) - ids[1] + 1]
      new      == withTime(interval, words[1], time)
  IN  IF wordsError(words, ids) # NoError
      THEN [db EXCEPT !.thrown = wordsError(words, ids), !.out = <<>>]
      ELSE IF trackedError(ids[1], tracked, time) # NoError
      THEN [loaded EXCEPT !.thrown = trackedError(ids[1], tracked, time), !.out = <<>>]
      ELSE IF new.start > new.end
      THEN [loaded EXCEPT !.thrown = StartAfterEnd, !.out = <<>>]
      ELSE deleteValidateAdd(loaded, interval, new)

\* ---------------------------------------------------------------- CmdImport
\* the loop over the intervals of the input: validate, then addInterval; an
\* error leaves the loop and the command
RECURSIVE importLoop(_, _)
importLoop(db, intervals) ==
  IF intervals = <<>> THEN db
  ELSE IF validateRejects(db, Head(intervals)) THEN [db EXCEPT !.thrown = CannotOverlap]
  ELSE LET d == addInterval(db, Head(intervals))
       IN  IF d.thrown # NoError THEN d ELSE importLoop(d, Tail(intervals))

\* CmdImport on the intervals read from the input
CmdImport(db, intervals) ==
  LET started == startTransaction(db)
      looped  == importLoop(started, intervals)
  IN  IF started.thrown # NoError THEN started
      ELSE IF looped.thrown # NoError THEN looped
      ELSE endTransaction(looped)

\* ------------------------------------------------- initializeDatafiles, names
\* A file name is the sequence of its characters.  std::string::find: the
\* first position (from 0) at which `pattern` occurs in `filename`, -1 (npos)
\* when it does not occur
find(filename, pattern) ==
  LET at == { i \in 0..(Len(filename) - Len(pattern)) :
                SubSeq(filename, i + 1, i + Len(pattern)) = pattern }
  IN  IF at = {} THEN -1 ELSE CHOOSE i \in at : \A j \in at : i <= j

DotData == <<".", "d", "a", "t", "a">>

\* the lambda not_valid_filename of initializeDatafiles (filename[i] counts
\* from 0)
not_valid_filename(filename) ==
  \/ filename[Len(filename) - 8 + 1] # "-"
  \/ find(filename, DotData) # Len(filename) - 5

\* the character codes, for operator< of std::string
Ord ==
  ("-" :> 45) @@ ("." :> 46)
  @@ ("0" :> 48) @@ ("1" :> 49) @@ ("2" :> 50) @@ ("3" :> 51) @@ ("5" :> 53) @@ ("6" :> 54)
  @@ ("a" :> 97) @@ ("b" :> 98) @@ ("c" :> 99) @@ ("d" :> 100) @@ ("e" :> 101) @@ ("f" :> 102) @@ ("g" :> 103) @@ ("n" :> 110) @@ ("o" :> 111) @@ ("s" :> 115) @@ ("t" :> 116) @@ ("u" :> 117) @@ ("x" :> 120)

Codes(filename) == [i \in 1..Len(filename) |-> Ord[filename[i]]]

\* std::sort of a set of names
RECURSIVE sortNames(_)
sortNames(S) ==
  IF S = {} THEN <<>>
  ELSE LET m == CHOOSE x \in S : \A y \in S \ {x} : SeqLess(Codes(x), Codes(y))
       IN  <<m>> \o sortNames(S \ {m})

\* Database::initializeDatafiles on the entries that Directory::list returns:
\* the names of the Datafiles of _files, in order
discoverDatafiles(filenames) ==
  sortNames({ f \in filenames : ~not_valid_filename(f) })

\* Database::initializeDatafiles: one Datafile per YYYY-MM.data of the
\* location, sorted by name
initializeDatafiles(disk) ==
  LET names == SortedSeq(DOMAIN disk)
  IN  [i \in 1..Len(names) |-> NewDatafile(names[i])]

\* the loop over json->_data of initializeTagDatabase (a std::map, so in key
\* order): ok is false when a tag object has no "count" member, and tags
\* are the entries added before that
RECURSIVE parseLoop(_, _, _)
parseLoop(data, keys, tags) ==
  IF keys = <<>> THEN [ok |-> TRUE, tags |-> tags]
  ELSE IF "count" \notin DOMAIN data[Head(keys)] THEN [ok |-> FALSE, tags |-> tags]
  ELSE parseLoop(data, Tail(keys), addTag(tags, Head(keys), data[Head(keys)].count))

\* the try block of initializeTagDatabase: empty content and content that
\* is no JSON object throw before any entry is added
parseTagsFile(tagsFile) ==
  IF tagsFile.kind = "object"
  THEN parseLoop(tagsFile.data, SortedSeq(DOMAIN tagsFile.data), NoTags)
  ELSE [ok |-> FALSE, tags |-> NoTags]

\* faulty variant: the rebuild without the reset: it starts from the entries the
\* failed parse had added
rebuildStartKeepsParsed(parsed) == parsed.tags

\* the Tag Index the rebuild starts from: "_tagInfoDatabase = TagInfoDatabase()"
rebuildStart(parsed) == NoTags

\* the loop "for (; it != end; ++it)" of the rebuild over the lines of a
\* forward traversal
RECURSIVE rebuildLoop(_, _)
rebuildLoop(tags, lines) ==
  IF lines = <<>> THEN tags
  ELSE rebuildLoop(incrementAll(tags, SortedSeq(FromSerialization(Head(lines)).tags)),
                   Tail(lines))

\* the messages of initializeTagDatabase
ParseError   == "Error parsing tags database: "
DoesNotExist == "Tags database does not exist. "
Recreating   == "Recreating from interval data..."

\* Database::initializeTagDatabase
initializeTagDatabase(db) ==
  LET parsed == parseTagsFile(db.tagsFile)
      start  == rebuildStart(parsed)
      lines  == Forward(db.files, db.disk)
      built  == rebuildLoop(start, lines)
      exists == db.tagsFile.kind # "missing"
  IN  IF exists /\ parsed.ok
      THEN [db EXCEPT !.tags = parsed.tags, !.modified = FALSE, !.out = <<>>]
      ELSE [db EXCEPT
              !.tagsFile = toJson(start),
              !.files    = LoadedAll(db.files, db.disk),
              !.tags     = built,
              !.modified = \E i \in 1..Len(lines) : FromSerialization(lines[i]).tags # {},
              !.out      = (IF exists THEN <<ParseError>> ELSE <<>>)
                           \o (IF lines = <<>> THEN <<>>
                               ELSE (IF exists THEN <<>> ELSE <<DoesNotExist>>)
                                    \o <<Recreating>>)]

\* Database::initialize on the location: the journal is read back from
\* undo.data, the Datafiles are discovered, the Tag Index is loaded or rebuilt
initialize(db) ==
  initializeTagDatabase(
    [db EXCEPT !.files = initializeDatafiles(db.disk), !.txn = NoTxn,
               !.thrown = NoError])

\* ------------------------------------------------------------------- state
VARIABLES
  files,      \* Database::_files
  tags,       \* Database::_tagInfoDatabase, the counts
  modified,   \* Database::_tagInfoDatabase, its modified flag
  journal,    \* Database::_journal
  txn,        \* Database::_journal, the transaction a caller has opened
  jsize,      \* Database::_journal, its max_transactions (journal_size)
  disk,       \* the YYYY-MM.data files of the location
  tagsFile,   \* tags.data
  last,       \* the last call made on the store: its argument, error and output
  phase,      \* where a test of Database.t.cpp stands
  added,      \* the intervals such a test has added, as a bag
  pre,        \* the store as it was before a call sequence under test
  walk,       \* a traversal in progress: its iterator and the lines it visited
  hist        \* the transactions a test has seen recorded, oldest first

store == <<files, tags, modified, journal, txn, jsize, disk, tagsFile, last>>
vars  == <<files, tags, modified, journal, txn, jsize, disk, tagsFile, last,
          phase, added, pre, walk, hist>>

Db == [files |-> files, tags |-> tags, modified |-> modified, journal |-> journal,
       txn |-> txn, jsize |-> jsize,
       disk |-> disk, tagsFile |-> tagsFile, thrown |-> NoError, out |-> <<>>]

Call(op, a, d) == [op |-> op, a |-> a, thrown |-> d.thrown, out |-> d.out]

\* the state is the store `d`, reached by call `op` with argument a
Is(d, op, a) ==
  /\ files    = d.files
  /\ tags     = d.tags
  /\ modified = d.modified
  /\ journal  = d.journal
  /\ txn      = d.txn
  /\ jsize    = d.jsize
  /\ disk     = d.disk
  /\ tagsFile = d.tagsFile
  /\ last     = Call(op, a, d)

\* the next state is the store `d`, reached by call `op` with argument a
Becomes(d, op, a) ==
  /\ files'    = d.files
  /\ tags'     = d.tags
  /\ modified' = d.modified
  /\ journal'  = d.journal
  /\ txn'      = d.txn
  /\ jsize'    = d.jsize
  /\ disk'     = d.disk
  /\ tagsFile' = d.tagsFile
  /\ last'     = Call(op, a, d)

\* the inputs of the calls on the store
StoreTags == {1}
Intervals == ClosedIntervals(Instants, SUBSET StoreTags)

RECURSIVE SumLines(_, _, _)
SumLines(fs, dk, n) ==
  IF n = 0 THEN 0 ELSE Len(allLines(fs[n], dk)) + SumLines(fs, dk, n - 1)

TotalLines(fs, dk) == SumLines(fs, dk, Len(fs))

\* the calls are made while the store stays within the bounds
Within(d) == TotalLines(d.files, d.disk) <= MaxLines

\* a location, before a store is constructed on it
Location(dk, tf) ==
  [files |-> <<>>, tags |-> NoTags, modified |-> FALSE, journal |-> <<>>,
   txn |-> NoTxn, jsize |-> JournalSize,
   disk |-> dk, tagsFile |-> tf, thrown |-> NoError, out |-> <<>>]

\* what a test remembers of the store: the Datafiles' lines and the tag counts
Snapshot(d) ==
  [names |-> [i \in 1..Len(d.files) |-> d.files[i].name],
   lines |-> [i \in 1..Len(d.files) |-> allLines(d.files[i], d.disk)],
   tags  |-> d.tags,
   tagsFile |-> d.tagsFile]

NoSnapshot == [names |-> <<>>, lines |-> <<>>, tags |-> NoTags, tagsFile |-> MissingFile]

\* no traversal in progress
NoWalk == [it |-> [fi |-> 0, li |-> 0], fwd |-> <<>>, rev |-> <<>>]

\* Database database {".", journal_size} in an empty directory
Init ==
  /\ Is(initialize(Location(<<>>, MissingFile)), "open", EmptyInterval)
  /\ phase = "none"
  /\ added = EmptyBag
  /\ pre = NoSnapshot
  /\ walk = NoWalk
  /\ hist = <<>>

\* database.addInterval (iv, verbose)
AddInterval ==
  /\ \E iv \in Intervals :
       LET d == addInterval(Db, iv)
       IN  Within(d) /\ Becomes(d, "add", iv)
  /\ UNCHANGED <<phase, added, pre, walk, hist>>

\* database.deleteInterval (iv)
DeleteInterval ==
  /\ \E iv \in Intervals :
       LET d == deleteInterval(Db, iv)
       IN  Within(d) /\ Becomes(d, "delete", iv)
  /\ UNCHANGED <<phase, added, pre, walk, hist>>

\* database.modifyInterval (from, to, verbose)
ModifyInterval ==
  /\ \E from \in Intervals \cup {EmptyInterval}, to \in Intervals \cup {EmptyInterval} :
       LET d == modifyInterval(Db, from, to)
       IN  Within(d) /\ Becomes(d, "modify", EmptyInterval)
  /\ UNCHANGED <<phase, added, pre, walk, hist>>

\* a full traversal (begin () to end ()) reads every Datafile
Traverse ==
  /\ Becomes([Db EXCEPT !.files = LoadedAll(files, disk)], "traverse", EmptyInterval)
  /\ UNCHANGED <<phase, added, pre, walk, hist>>

Next ==
  \/ AddInterval
  \/ DeleteInterval
  \/ ModifyInterval
  \/ Traverse

Spec == Init /\ [][Next]_vars

\* ------------------------------------------------------------------ claims
\* the names of the Datafile list, as Database::files () returns them
FileNames(fs) == [i \in 1..Len(fs) |-> fs[i].name]

\* C1: after any sequence of addInterval, deleteInterval and modifyInterval
\* calls the Datafile list is sorted strictly ascending by month range, also
\* when an interval starts at the first instant of a month.
C1_FilesSorted ==
  \A i \in 1..Len(files), j \in 1..Len(files) :
    i < j => DatafileRange(files[i].name).end <= DatafileRange(files[j].name).start

\* C2: no two entries of the Datafile list are for the same month, so
\* commit () never writes two in-memory line lists to one YYYY-MM.data.
C2_OneDatafilePerMonth ==
  \A i \in 1..Len(files), j \in 1..Len(files) :
    i # j => files[i].name # files[j].name

\* the number of stored intervals that carry tag t
RECURSIVE CountTag(_, _)
CountTag(lines, t) ==
  IF lines = <<>> THEN 0
  ELSE (IF t \in FromSerialization(Head(lines)).tags THEN 1 ELSE 0)
       + CountTag(Tail(lines), t)

TagCount(tg, t) == IF t \in DOMAIN tg THEN tg[t] ELSE 0

\* C8: after any sequence of addInterval, deleteInterval and modifyInterval
\* calls (the deleted interval stored or not) the count of every tag equals
\* the number of stored intervals that carry the tag.
C8_TagCountsAgree ==
  \A t \in Tags : TagCount(tags, t) = CountTag(Forward(files, disk), t)

\* --------------------------------------------- the tests of Database.t.cpp
\* test_database_remains_sorted and test_database_handles_add_on_reload, on
\* any inputs: add the inputs to a store on an empty directory, commit,
\* construct the store again, add one more interval.
InitReload ==
  /\ Is(initialize(Location(<<>>, MissingFile)), "open", EmptyInterval)
  /\ phase = "adding"
  /\ added = EmptyBag
  /\ pre = NoSnapshot
  /\ walk = NoWalk
  /\ hist = <<>>

\* for (const auto& interval : inputs) database.addInterval (interval, verbose)
TestAdd ==
  /\ phase = "adding"
  /\ BagCardinality(added) < MaxAdds
  /\ \E iv \in Intervals :
       /\ Becomes(addInterval(Db, iv), "add", iv)
       /\ added' = added (+) SetToBag({iv})
  /\ UNCHANGED <<phase, pre, walk, hist>>

\* database.commit ()
TestCommit ==
  /\ phase = "adding"
  /\ Becomes(commit(Db), "commit", EmptyInterval)
  /\ phase' = "committed"
  /\ UNCHANGED <<added, pre, walk, hist>>

\* database = Database {".", 0}
TestReopen ==
  /\ phase = "committed"
  /\ Becomes(initialize(Db), "open", EmptyInterval)
  /\ phase' = "reopened"
  /\ UNCHANGED <<added, pre, walk, hist>>

\* database.addInterval ({...}, verbose) on the store just constructed
TestAddOnReload ==
  /\ phase = "reopened"
  /\ \E iv \in Intervals : Becomes(addInterval(Db, iv), "add", iv)
  /\ phase' = "readded"
  /\ UNCHANGED <<added, pre, walk, hist>>

NextReload ==
  \/ TestAdd
  \/ TestCommit
  \/ TestReopen
  \/ TestAddOnReload

SpecReload == InitReload /\ [][NextReload]_vars

\* std::is_sorted by the start of the lines
SortedByStart(lines) ==
  \A i \in 1..Len(lines), j \in 1..Len(lines) : i < j => lines[i][1] <= lines[j][1]

\* C3: after any sequence of addInterval calls, in any order and also on a
\* store loaded from files, rbegin () .. rend () yields the lines in
\* non-decreasing start order.
C3_ReverseTraversalSorted == SortedByStart(Reverse(files, disk))

RECURSIVE BagOfSeq(_)
BagOfSeq(q) == IF q = <<>> THEN EmptyBag ELSE SetToBag({Head(q)}) (+) BagOfSeq(Tail(q))

\* the serialized lines of a bag of intervals
RECURSIVE SerializedBag(_)
SerializedBag(b) ==
  IF DOMAIN b = {} THEN EmptyBag
  ELSE LET iv == CHOOSE x \in DOMAIN b : TRUE
       IN  [l \in {Serialize(iv)} |-> b[iv]]
           (+) SerializedBag([x \in (DOMAIN b) \ {iv} |-> b[x]])

\* C4: adding the intervals of S to an empty store, commit () and
\* constructing the store again yields a forward traversal of exactly |S|
\* lines, the serialized lines of S.
C4_ReloadYieldsAllAdded ==
  phase = "reopened" =>
    /\ Len(Forward(files, disk)) = BagCardinality(added)
    /\ BagOfSeq(Forward(files, disk)) = SerializedBag(added)

\* the lines of all YYYY-MM.data files of the location
RECURSIVE DiskBag(_)
DiskBag(dk) ==
  IF DOMAIN dk = {} THEN EmptyBag
  ELSE LET m == CHOOSE x \in DOMAIN dk : TRUE
       IN  BagOfSeq(dk[m]) (+) DiskBag([x \in (DOMAIN dk) \ {m} |-> dk[x]])

\* C6: on a store just constructed on a committed location, addInterval (iv)
\* without a commit makes the forward traversal yield the lines on disk and
\* the line of iv, one line more than before, and a Datafile for the month
\* of iv is in the list.
C6_AddOnReloadKeepsDiskLines ==
  phase = "readded" =>
    /\ BagOfSeq(Forward(files, disk)) = DiskBag(disk) (+) SetToBag({Serialize(last.a)})
    /\ Len(Forward(files, disk)) = BagCardinality(DiskBag(disk)) + 1
    /\ \E i \in 1..Len(files) : files[i].name = MonthOf(last.a.start)

\* C6 witness: the interval was added to a month that had a file with lines
\* on disk, next to another month's file that was never loaded
C6_Witness ==
  /\ phase = "readded"
  /\ \E i \in 1..Len(files) :
       /\ files[i].name = MonthOf(last.a.start)
       /\ files[i].loaded
       /\ Len(DiskLines(disk, files[i].name)) > 0
       /\ Len(files[i].lines) = Len(DiskLines(disk, files[i].name)) + 1
  /\ \E i \in 1..Len(files) : ~files[i].loaded /\ Len(DiskLines(disk, files[i].name)) > 0

\* ------------------------------------------------ add, delete, commit
\* The store is brought to any state by addInterval, deleteInterval and
\* modifyInterval, or is committed and constructed again on its location;
\* then a caller runs addInterval (iv); deleteInterval (iv); commit ().
InitRoundTrip == Init

Mutate ==
  /\ phase = "none"
  /\ \/ AddInterval
     \/ DeleteInterval
     \/ ModifyInterval

\* database.commit (); database = Database {location, journal_size}
CommitAndReopen ==
  /\ phase = "none"
  /\ Becomes(initialize(commit(Db)), "open", EmptyInterval)
  /\ phase' = "reopened"
  /\ UNCHANGED <<added, pre, walk, hist>>

RoundTripAdd ==
  /\ phase \in {"none", "reopened"}
  /\ \E iv \in Intervals : Becomes(addInterval(Db, iv), "add", iv)
  /\ phase' = "rt_added"
  /\ pre' = Snapshot(Db)
  /\ UNCHANGED <<added, walk, hist>>

RoundTripDelete ==
  /\ phase = "rt_added"
  /\ Becomes(deleteInterval(Db, last.a), "delete", last.a)
  /\ phase' = "rt_deleted"
  /\ UNCHANGED <<added, pre, walk, hist>>

RoundTripCommit ==
  /\ phase = "rt_deleted"
  /\ Becomes(commit(Db), "commit", last.a)
  /\ phase' = "rt_committed"
  /\ UNCHANGED <<added, pre, walk, hist>>

NextRoundTrip ==
  \/ Mutate
  \/ CommitAndReopen
  \/ RoundTripAdd
  \/ RoundTripDelete
  \/ RoundTripCommit

SpecRoundTrip == InitRoundTrip /\ [][NextRoundTrip]_vars

\* the Datafiles of `now` are those of `before`, with the same lines, except
\* for at most one Datafile that `before` did not have and that holds no line
SameDatafileLines(now, before) ==
  \/ now.names = before.names /\ now.lines = before.lines
  \/ \E k \in 1..Len(now.names) :
       /\ now.lines[k] = <<>>
       /\ RemoveAt(now.names, k) = before.names
       /\ RemoveAt(now.lines, k) = before.lines

MaxCount == 2

\* the sorted line lists of at most n lines a commit can leave in the file
\* of month m
MonthIntervals(m) == ClosedIntervals({t \in Instants : MonthOf(t) = m}, SUBSET Tags)

FileContents(m, n) ==
  {s \in UNION {[1..k -> {Serialize(iv) : iv \in MonthIntervals(m)}] : k \in 0..n} :
     \A i \in 1..Len(s), j \in 1..Len(s) : i < j => ~LineLess(s[j], s[i])}

\* the locations with files for months among 1..m that hold at most n lines
\* together; a file may hold no line
RECURSIVE DisksOver(_, _)
DisksOver(m, n) ==
  IF m = 0 THEN {<<>>}
  ELSE UNION {
         {dk} \cup {[k \in DOMAIN dk \cup {m} |-> IF k = m THEN c ELSE dk[k]] :
                     c \in FileContents(m, n - TotalLines(initializeDatafiles(dk), dk))} :
         dk \in DisksOver(m - 1, n)}

Disks == DisksOver(NumMonths, MaxLines)

\* a tag object of tags.data: with a "count" member, or without one
TagObjects == {[count |-> n] : n \in 0..MaxCount} \cup {[other |-> 0]}

TagsFiles ==
  {MissingFile, EmptyFile, GarbageFile}
  \cup {[kind |-> "object", data |-> d] : d \in UNION {[ts -> TagObjects] : ts \in SUBSET Tags}}

InitTags ==
  /\ \E dk \in Disks, tf \in TagsFiles : Is(Location(dk, tf), "none", EmptyInterval)
  /\ phase = "closed"
  /\ added = EmptyBag
  /\ pre = NoSnapshot
  /\ walk = NoWalk
  /\ hist = <<>>

\* Database database {location, journal_size}
OpenStore ==
  /\ phase = "closed"
  /\ Becomes(initialize(Db), "open", EmptyInterval)
  /\ phase' = "opened"
  /\ pre' = Snapshot(Db)
  /\ UNCHANGED <<added, walk, hist>>

\* a second Database on the location, the first one never committed
OpenAgain ==
  /\ phase = "opened"
  /\ Becomes(initialize(Db), "open", EmptyInterval)
  /\ phase' = "reopened"
  /\ pre' = Snapshot(Db)
  /\ UNCHANGED <<added, walk, hist>>

\* database.commit () after the construction
CommitOpened ==
  /\ phase = "opened"
  /\ Becomes(commit(Db), "commit", EmptyInterval)
  /\ phase' = "committed"
  /\ UNCHANGED <<added, pre, walk, hist>>

NextTags ==
  \/ OpenStore
  \/ OpenAgain
  \/ CommitOpened

SpecTags == InitTags /\ [][NextTags]_vars

\* tags.data is missing, is empty, is no JSON object, or has a tag object
\* without a "count" member
Rejected(tf) ==
  \/ tf.kind \in {"missing", "empty", "garbage"}
  \/ \E t \in DOMAIN tf.data : "count" \notin DOMAIN tf.data[t]

\* the lines of all YYYY-MM.data files of the location
RECURSIVE StoredLines(_, _)
StoredLines(dk, names) ==
  IF names = <<>> THEN <<>> ELSE dk[Head(names)] \o StoredLines(dk, Tail(names))

\* C9: when tags.data is missing, empty or fails to parse (also after some
\* entries were loaded), the Tag Index of the opened store counts, for every
\* tag, the stored intervals that carry it, and has no other entry.
C9_RebuildIsGroundTruth ==
  (phase \in {"opened", "reopened"} /\ Rejected(pre.tagsFile)) =>
    LET lines == StoredLines(disk, SortedSeq(DOMAIN disk))
    IN  /\ \A t \in Tags : TagCount(tags, t) = CountTag(lines, t)
        /\ DOMAIN tags = {t \in Tags : CountTag(lines, t) > 0}

\* C9 witness: the parse loaded the entry of tag 1 and failed on tag 2, and
\* the store holds an interval that carries tag 2 and none that carries tag 1
C9_Witness ==
  /\ phase = "opened"
  /\ pre.tagsFile.kind = "object"
  /\ DOMAIN pre.tagsFile.data = {1, 2}
  /\ "count" \in DOMAIN pre.tagsFile.data[1]
  /\ pre.tagsFile.data[1].count > 0
  /\ "count" \notin DOMAIN pre.tagsFile.data[2]
  /\ DOMAIN tags = {2}

\* C10: when tags.data is missing or fails to parse, tags.data equals the
\* rebuilt Tag Index when the construction of the store returns.
C10_SidecarEqualsRebuiltIndex ==
  (phase \in {"opened", "reopened"} /\ Rejected(pre.tagsFile)) =>
    tagsFile = toJson(tags)

\* ------------------------------------------- forward and reverse traversal
\* The store is brought to any state, or committed and constructed again;
\* then a caller runs "for (it = begin (); it != end (); ++it)" and after
\* it "for (it = rbegin (); it != rend (); ++it)", one call per step.
InitIter == Init

\* auto it = database.begin ()
ForwardBegin ==
  /\ phase \in {"none", "reopened"}
  /\ LET it == begin(files, disk)
     IN  /\ walk' = [it |-> it, fwd |-> <<>>, rev |-> <<>>]
         /\ Becomes([Db EXCEPT !.files = LoadedBetween(files, disk, it.fi, Len(files))],
                    "begin", EmptyInterval)
  /\ phase' = "forward"
  /\ UNCHANGED <<added, pre, hist>>

\* the loop body reads *it, then ++it
ForwardStep ==
  /\ phase = "forward"
  /\ ~iteratorEq(walk.it, end(files, disk))
  /\ LET it == iteratorInc(files, disk, walk.it)
     IN  /\ walk' = [walk EXCEPT !.it = it,
                                 !.fwd = Append(@, iteratorDeref(files, disk, walk.it))]
         /\ Becomes([Db EXCEPT !.files = LoadedBetween(files, disk, it.fi, Len(files))],
                    "++", EmptyInterval)
  /\ UNCHANGED <<phase, added, pre, hist>>

\* the forward loop has ended: auto it = database.rbegin ()
ReverseBegin ==
  /\ phase = "forward"
  /\ iteratorEq(walk.it, end(files, disk))
  /\ LET it == rbegin(files, disk)
     IN  /\ walk' = [walk EXCEPT !.it = it]
         /\ Becomes([Db EXCEPT !.files = LoadedBetween(files, disk, 1, it.fi)],
                    "rbegin", EmptyInterval)
  /\ phase' = "reverse"
  /\ UNCHANGED <<added, pre, hist>>

ReverseStep ==
  /\ phase = "reverse"
  /\ ~reverseEq(files, walk.it, rend(files, disk))
  /\ LET it == reverseInc(files, disk, walk.it)
     IN  /\ walk' = [walk EXCEPT !.it = it,
                                 !.rev = Append(@, reverseDeref(files, disk, walk.it))]
         /\ Becomes([Db EXCEPT !.files = LoadedBetween(files, disk, 1, it.fi)],
                    "++", EmptyInterval)
  /\ UNCHANGED <<phase, added, pre, hist>>

NextIter ==
  \/ Mutate
  \/ CommitAndReopen
  \/ ForwardBegin
  \/ ForwardStep
  \/ ReverseBegin
  \/ ReverseStep

SpecIter == InitIter /\ [][NextIter]_vars

Reversed(s) == [i \in 1..Len(s) |-> s[Len(s) + 1 - i]]

\* the lines of the Datafiles at positions 1..n, oldest position first and
\* first line first
RECURSIVE LinesInOrder(_, _, _)
LinesInOrder(fs, dk, n) ==
  IF n = 0 THEN <<>> ELSE LinesInOrder(fs, dk, n - 1) \o allLines(fs[n], dk)

BothLoopsEnded == phase = "reverse" /\ reverseEq(files, walk.it, rend(files, disk))

\* C5: the lines visited from begin () to end () are the lines visited from
\* rbegin () to rend () in reverse order: the forward loop goes from the
\* newest Datafile to the oldest and from the last line to the first, the
\* reverse loop the other way, also when some Datafiles hold no line.
C5_ForwardIsReverseOfReverse ==
  BothLoopsEnded =>
    /\ walk.fwd = Reversed(walk.rev)
    /\ walk.rev = LinesInOrder(files, disk, Len(files))

\* C5 witness: both loops ended on a store with a Datafile without lines
\* between two Datafiles that hold a line
C5_Witness ==
  /\ BothLoopsEnded
  /\ Len(walk.fwd) = 2
  /\ \E i, j, k \in 1..Len(files) :
       /\ i < j /\ j < k
       /\ allLines(files[i], disk) # <<>>
       /\ allLines(files[j], disk) = <<>>
       /\ allLines(files[k], disk) # <<>>

\* ------------------------------------------------------ deleteInterval
\* some Datafile of the list covers the start of the interval
Covers(fs, iv) ==
  \E i \in 1..Len(fs) : startsWithin(iv, DatafileRange(fs[i].name))

\* C11: deleteInterval (iv), called when no Datafile of the store covers
\* iv.start, ends with the NotFound error and appends no undo record.
C11_DeleteWithoutDatafileFails ==
  [][(last'.op = "delete" /\ ~Covers(files, last'.a))
       => (last'.thrown = NotFound /\ journal' = journal /\ txn' = txn)]_vars

\* --------------------------------------------------------- addInterval
\* the Datafile that getDatafile returns for the interval reports a change
ReportsChange(fs, dk, iv) ==
  DatafileAddChanged(getDatafileFiles(iv, fs)[getDatafilePos(iv, fs)], dk, iv)

SingleMutation ==
  /\ phase = "none"
  /\ \E iv \in Intervals :
       \/ Becomes(addInterval(Db, iv), "add", iv)
       \/ Becomes(deleteInterval(Db, iv), "delete", iv)
  /\ phase' = "mutated"
  /\ pre' = Snapshot(Db)
  /\ UNCHANGED <<added, walk, hist>>

\* database.journal ().undo ()
UndoMutation ==
  /\ phase = "mutated"
  /\ Becomes(undo(Db), "undo", last.a)
  /\ phase' = "undone"
  /\ UNCHANGED <<added, pre, walk, hist>>

\* the inverse of the returned records, applied through the store
RevertMutation ==
  /\ phase = "undone"
  /\ Becomes(applyInverse(Db, last.out), "revert", last.a)
  /\ phase' = "reverted"
  /\ UNCHANGED <<added, pre, walk, hist>>

NextUndo ==
  \/ Mutate
  \/ SingleMutation
  \/ UndoMutation
  \/ RevertMutation

SpecUndo == Init /\ [][NextUndo]_vars

\* the stored interval lines of a snapshot, as a multiset
RECURSIVE LinesBag(_)
LinesBag(lines) ==
  IF lines = <<>> THEN EmptyBag ELSE BagOfSeq(Head(lines)) (+) LinesBag(Tail(lines))

\* C13: after one addInterval (iv) or deleteInterval (iv) with no
\* transaction open, undo () and the inverse of the records it returns,
\* applied through the store, restore the multiset of stored interval lines;
\* the deleted interval need not be in the store.
C13_UndoRestoresLines ==
  phase = "reverted" => LinesBag(Snapshot(Db).lines) = LinesBag(pre.lines)

\* --------------------------------------- modifyInterval and transactions
\* A store with an unbounded journal (journal_size 0) is set up by a few
\* addInterval and deleteInterval calls; then a caller runs modifyInterval
\* (from, to), either between startTransaction and endTransaction, followed
\* by undo () and the inverse of the returned records, or on its own.
MaxSetup == 2

InitModify ==
  /\ Is(initialize([Location(<<>>, MissingFile) EXCEPT !.jsize = 0]), "open", EmptyInterval)
  /\ phase = "setup"
  /\ added = EmptyBag
  /\ pre = NoSnapshot
  /\ walk = NoWalk
  /\ hist = <<>>

Setup ==
  /\ phase = "setup"
  /\ Len(journal) < MaxSetup
  /\ \E iv \in Intervals :
       \/ Becomes(addInterval(Db, iv), "add", iv)
       \/ Becomes(deleteInterval(Db, iv), "delete", iv)
  /\ hist' = journal'
  /\ UNCHANGED <<phase, added, pre, walk>>

\* database.journal ().startTransaction ()
ModifyStart ==
  /\ phase = "setup"
  /\ Becomes(startTransaction(Db), "start", EmptyInterval)
  /\ phase' = "started"
  /\ pre' = Snapshot(Db)
  /\ UNCHANGED <<added, walk, hist>>

\* database.modifyInterval (from, to) within the transaction
ModifyInTransaction ==
  /\ phase = "started"
  /\ \E from \in Intervals, to \in Intervals :
       Becomes(modifyInterval(Db, from, to), "modify", [from |-> from, to |-> to])
  /\ phase' = "txn_modified"
  /\ UNCHANGED <<added, pre, walk, hist>>

\* database.journal ().endTransaction ()
ModifyEnd ==
  /\ phase = "txn_modified"
  /\ Becomes(endTransaction(Db), "end", last.a)
  /\ phase' = "ended"
  /\ UNCHANGED <<added, pre, walk, hist>>

\* database.journal ().undo ()
ModifyUndo ==
  /\ phase = "ended"
  /\ Becomes(undo(Db), "undo", last.a)
  /\ phase' = "undone"
  /\ UNCHANGED <<added, pre, walk, hist>>

\* the inverse of the returned records, applied through the store
ModifyRevert ==
  /\ phase = "undone"
  /\ Becomes(applyInverse(Db, last.out), "revert", last.a)
  /\ phase' = "reverted"
  /\ UNCHANGED <<added, pre, walk, hist>>

\* database.modifyInterval (from, to) with no transaction open
ModifyPlain ==
  /\ phase = "setup"
  /\ \E from \in Intervals, to \in Intervals :
       Becomes(modifyInterval(Db, from, to), "modify", [from |-> from, to |-> to])
  /\ phase' = "plain"
  /\ pre' = Snapshot(Db)
  /\ UNCHANGED <<added, walk, hist>>

NextModify ==
  \/ Setup
  \/ ModifyStart
  \/ ModifyInTransaction
  \/ ModifyEnd
  \/ ModifyUndo
  \/ ModifyRevert
  \/ ModifyPlain

SpecModify == InitModify /\ [][NextModify]_vars

DeleteRecord(iv) == UndoAction("interval", Json(iv), NoPayload)
AddRecord(iv)    == UndoAction("interval", NoPayload, Json(iv))

\* C14: modifyInterval (from, to), both non-empty, records (from.json, "")
\* and then ("", to.json) in one transaction exactly when the caller opened
\* one; then one undo () returns both records and their inverse returns the
\* store to the pre-state; with no transaction open the records are two
\* transactions of one record each.
C14_ModifyIsOneTransactionIffOpened ==
  /\ phase = "ended" =>
       journal = Append(hist, <<DeleteRecord(last.a.from), AddRecord(last.a.to)>>)
  /\ phase = "undone" =>
       /\ journal = hist
       /\ last.out = <<AddRecord(last.a.to), DeleteRecord(last.a.from)>>
  /\ phase = "reverted" =>
       /\ LinesBag(Snapshot(Db).lines) = LinesBag(pre.lines)
       /\ \A t \in Tags : TagCount(tags, t) = TagCount(pre.tags, t)
  /\ phase = "plain" =>
       journal = hist \o << <<DeleteRecord(last.a.from)>>, <<AddRecord(last.a.to)>> >>

\* ------------------------------------------------------------ the journal
\* A store is constructed with any journal_size from 0 up; a caller records
\* transactions through addInterval and deleteInterval, on their own or
\* between startTransaction and endTransaction, and then calls undo ().
MaxJournal    == 2
MaxRecorded   == 3
MaxTxnRecords == 2

JournalIntervals == {iv \in Intervals : iv.start = MonthStart(1) /\ iv.tags = {}}

InitJournal ==
  /\ \E n \in 0..MaxJournal :
       Is(initialize([Location(<<>>, MissingFile) EXCEPT !.jsize = n]), "open", EmptyInterval)
  /\ phase = "recording"
  /\ added = EmptyBag
  /\ pre = NoSnapshot
  /\ walk = NoWalk
  /\ hist = <<>>

CanRecord ==
  /\ phase = "recording"
  /\ Len(hist) < MaxRecorded
  /\ Len(txn.records) < MaxTxnRecords

JournalAdd ==
  /\ CanRecord
  /\ \E iv \in JournalIntervals :
       /\ Becomes(addInterval(Db, iv), "add", iv)
       /\ hist' = IF txn.open THEN hist ELSE Append(hist, <<AddRecord(iv)>>)
  /\ UNCHANGED <<phase, added, pre, walk>>

JournalDelete ==
  /\ CanRecord
  /\ \E iv \in JournalIntervals :
       /\ Becomes(deleteInterval(Db, iv), "delete", iv)
       /\ hist' = IF txn.open THEN hist ELSE Append(hist, <<DeleteRecord(iv)>>)
  /\ UNCHANGED <<phase, added, pre, walk>>

JournalStart ==
  /\ phase = "recording"
  /\ Len(hist) < MaxRecorded
  /\ Becomes(startTransaction(Db), "start", EmptyInterval)
  /\ UNCHANGED <<phase, added, pre, walk, hist>>

JournalEnd ==
  /\ phase = "recording"
  /\ txn.open
  /\ Becomes(endTransaction(Db), "end", EmptyInterval)
  /\ hist' = IF txn.records # <<>> THEN Append(hist, txn.records) ELSE hist
  /\ UNCHANGED <<phase, added, pre, walk>>

\* undo () is called in state Closed
JournalUndo ==
  /\ phase \in {"recording", "undoing"}
  /\ ~txn.open
  /\ Becomes(undo(Db), "undo", EmptyInterval)
  /\ phase' = "undoing"
  /\ UNCHANGED <<added, pre, walk, hist>>

NextJournal ==
  \/ JournalAdd
  \/ JournalDelete
  \/ JournalStart
  \/ JournalEnd
  \/ JournalUndo

SpecJournal == InitJournal /\ [][NextJournal]_vars

\* the newest n elements of a sequence
Newest(q, n) == IF Len(q) > n THEN SubSeq(q, Len(q) - n + 1, Len(q)) ELSE q

\* C15: a journal with max_transactions = n > 0 holds at most n
\* transactions, the n most recently recorded ones; with max_transactions
\* = 0 it holds every transaction recorded.
C15_JournalHoldsNewest ==
  phase = "recording" =>
    IF jsize > 0
    THEN Len(journal) <= jsize /\ journal = Newest(hist, jsize)
    ELSE journal = hist

\* C15 witness: a journal of size 1 after three transactions, the last one
\* of two records
C15_Witness ==
  /\ phase = "recording"
  /\ jsize = 1
  /\ Len(hist) = 3
  /\ Len(hist[3]) = 2
  /\ journal = <<hist[3]>>

\* C16: undo (), called in state Closed on a non-empty journal, removes
\* the newest transaction, returns its records in the reverse of the order
\* recorded, and leaves the older transactions as they were.
C16_UndoPopsNewest ==
  [][(last'.op = "undo" /\ journal # <<>>)
       => /\ journal' = SubSeq(journal, 1, Len(journal) - 1)
          /\ last'.out = Reversed(journal[Len(journal)])
          /\ txn' = txn]_vars

\* C16 witness: undo () returned two different records, newest first, and
\* an older transaction is left
C16_Witness ==
  /\ last.op = "undo"
  /\ Len(last.out) = 2
  /\ last.out[1] # last.out[2]
  /\ journal # <<>>
  /\ hist[Len(hist)] = <<last.out[2], last.out[1]>>

\* ------------------------------------------------------------- SpecCmdModify
\* "timew modify start|stop @id T" on a store of tracked intervals: a few
\* intervals are tracked, then the command runs once.
MaxTracked == 3

\* the ends of the tracked intervals and the times given to modify
Times == (MonthLen + 1) .. ((NumMonths + 1) * MonthLen)

\* the intervals the tests track: closed ones of any length, and open ones
TrackedIntervals ==
  { [start |-> s, end |-> e, tags |-> T] :
      s \in Instants, e \in {0} \cup Times, T \in SUBSET StoreTags }
    \ { iv \in [start : Instants, end : Times, tags : SUBSET StoreTags] :
          iv.end <= iv.start }

\* the command lines: the words, the ids and the time
CommandLines ==
  [words : {<<>>, <<"start">>, <<"stop">>, <<"begin">>},
   ids   : {<<>>, <<1, 2>>} \cup { <<i>> : i \in 1..(MaxTracked + 1) },
   time  : {0} \cup Instants \cup Times]

InitCmdModify ==
  /\ Is(initialize([Location(<<>>, MissingFile) EXCEPT !.jsize = 0]), "open", EmptyInterval)
  /\ phase = "setup"
  /\ added = EmptyBag
  /\ pre = NoSnapshot
  /\ walk = NoWalk
  /\ hist = <<>>

\* an interval is tracked ("timew start", "timew stop"): validate, then
\* addInterval
Track ==
  /\ phase = "setup"
  /\ TotalLines(files, disk) < MaxTracked
  /\ \E iv \in TrackedIntervals :
       /\ ~validateRejects(Db, iv)
       /\ Becomes(addInterval(Db, iv), "add", iv)
  /\ hist' = journal'
  /\ UNCHANGED <<phase, added, pre, walk>>

\* "timew modify <words> <ids> <time>"
Modify ==
  /\ phase = "setup"
  /\ \E cli \in CommandLines :
       Becomes(CmdModify(Db, cli.words, cli.ids, cli.time), "modify", cli)
  /\ phase' = "modified"
  /\ pre' = Snapshot(Db)
  /\ UNCHANGED <<added, walk, hist>>

NextCmdModify ==
  \/ Track
  \/ Modify

SpecCmdModify == InitCmdModify /\ [][NextCmdModify]_vars

\* the intervals of a snapshot, in the order of its Datafiles and lines
RECURSIVE IntervalsOf(_)
IntervalsOf(lines) ==
  IF lines = <<>> THEN <<>>
  ELSE [i \in 1..Len(Head(lines)) |-> FromSerialization(Head(lines)[i])]
         \o IntervalsOf(Tail(lines))

\* the command ended with an error
ModifyFailed == phase = "modified" /\ last.thrown # NoError

\* the command named one stored, closed interval and gave a time
WellFormed ==
  /\ phase = "modified"
  /\ last.a.words \in {<<"start">>, <<"stop">>}
  /\ Len(last.a.ids) = 1
  /\ last.a.ids[1] <= Len(IntervalsOf(pre.lines))
  /\ IntervalsOf(pre.lines)[Len(IntervalsOf(pre.lines)) - last.a.ids[1] + 1].end # 0
  /\ last.a.time # 0

\* the interval @id before the command, and what the command asks for
Target == IntervalsOf(pre.lines)[Len(IntervalsOf(pre.lines)) - last.a.ids[1] + 1]
Asked  == IF last.a.words = <<"stop">> THEN [Target EXCEPT !.end = last.a.time]
          ELSE [Target EXCEPT !.start = last.a.time]

\* the stored intervals, the tag counts and the undo journal are those
\* before the command
StoreAsBefore ==
  /\ Snapshot(Db).names = pre.names
  /\ Snapshot(Db).lines = pre.lines
  /\ tags = pre.tags
  /\ journal = hist
  /\ txn = NoTxn

\* C17: when CmdModify ends with an error, the stored intervals, the tag
\* counts and the undo journal are those before the command.
C17_FailedModifyLeavesStore == ModifyFailed => StoreAsBefore

\* C18: a modify that would make the start of the interval later than its
\* end is rejected with "Cannot modify interval ... where start is after
\* end", and the store has seen no deleteInterval and no addInterval.
C18_StartAfterEndRejected ==
  (WellFormed /\ Asked.start > Asked.end)
    => (last.thrown = StartAfterEnd /\ StoreAsBefore)

C18_Witness ==
  /\ WellFormed
  /\ Asked.start > Asked.end
  /\ last.thrown = StartAfterEnd
  /\ Len(IntervalsOf(pre.lines)) = 2
  /\ journal # <<>>

SegFirstMonth == 9
SegNumMonths  == 8

SegInstants == MonthStart(SegFirstMonth) .. (MonthStart(SegFirstMonth + SegNumMonths) - 1)

\* the ranges: closed with start < end, and open ones read at time `now`
SegRanges ==
  { r \in [start : SegInstants, end : SegInstants \cup {MonthStart(SegFirstMonth + SegNumMonths)}] :
      r.start < r.end }
    \cup [start : SegInstants, end : {0}]

\* Database::segmentRange (range)
SegmentRange ==
  /\ phase = "none"
  /\ \E range \in SegRanges, now \in SegInstants :
       /\ (range.end # 0 => now = range.start)   \* now is read for an open end only
       /\ (range.end = 0 => now >= range.start)
       /\ Becomes([Db EXCEPT !.thrown = NoError, !.out = segmentRange(range, now)],
                  "segmentRange", [start |-> range.start, end |-> range.end, now |-> now])
  /\ phase' = "segmented"
  /\ UNCHANGED <<added, pre, walk, hist>>

SpecSegmentRange == Init /\ [][SegmentRange]_vars

\* the months m..n, each as [first of the month, first of the next month)
MonthSegments(m, n) ==
  [i \in 1..(n - m + 1) |->
     [start |-> MonthStart(m + i - 1), end |-> MonthStart(m + i)]]

\* C20: for a range R with a closed end and start < end, segmentRange (R)
\* returns, in ascending order, exactly the calendar months that intersect R,
\* each as [first of the month, first of the next month): contiguous, not
\* overlapping, and without the month that begins exactly at R.end.
C20_SegmentsAreIntersectingMonths ==
  (phase = "segmented" /\ last.a.end # 0)
    => last.out = MonthSegments(MonthOf(last.a.start), MonthOf(last.a.end - 1))

C20_Witness ==
  /\ phase = "segmented"
  /\ last.a.end # 0
  /\ year(last.a.start) < year(last.a.end)
  /\ month(last.a.start) < MonthsPerYear
  /\ last.a.end = MonthStart(MonthOf(last.a.end))
  /\ Len(last.out) >= 3

\* C21: for a range [s, open) whose start lies in the calendar month of the
\* current instant, segmentRange returns exactly one segment, and the end of
\* that segment is the current instant, not the open sentinel.
C21_OpenEndIsNow ==
  (phase = "segmented" /\ last.a.end = 0 /\ MonthOf(last.a.start) = MonthOf(last.a.now))
    => (Len(last.out) = 1 /\ last.out[1].end = last.a.now)

\* --------------------------------------------------------------- SpecCommit
\* A store is opened on a location, changed by at most one call, and
\* committed; the commit may be repeated, and the write of a Datafile may
\* fail.  `last.out` of a commit lists the files the call wrote.
MaxStored == 1

\* tags.data of the location: missing, or as an earlier commit wrote it
Sidecars == {MissingFile, toJson(NoTags), toJson(1 :> 1)}

InitCommit ==
  /\ \E dk \in DisksOver(NumMonths, MaxStored), tf \in Sidecars :
       Is(Location(dk, tf), "none", EmptyInterval)
  /\ phase = "closed"
  /\ added = EmptyBag
  /\ pre = NoSnapshot
  /\ walk = NoWalk
  /\ hist = <<>>

\* one addInterval, deleteInterval or modifyInterval on the opened store
Change ==
  /\ phase = "opened"
  /\ \/ \E iv \in Intervals :
          \/ Becomes(addInterval(Db, iv), "add", iv)
          \/ Becomes(deleteInterval(Db, iv), "delete", iv)
     \/ \E from \in Intervals, to \in Intervals :
          Becomes(modifyInterval(Db, from, to), "modify", [from |-> from, to |-> to])
  /\ phase' = "changed"
  /\ pre' = Snapshot(Db)
  /\ UNCHANGED <<added, walk, hist>>

\* the location and the Datafile list a commit starts from
Before(k) == [at |-> k, files |-> files, disk |-> disk, tagsFile |-> tagsFile]

\* database.commit ()
Commit ==
  /\ phase \in {"opened", "changed", "committed", "flushed"}
  /\ Becomes([commit(Db) EXCEPT !.out = commitWrites(Db)], "commit", Before(0))
  /\ phase' = IF phase = "opened" THEN "committed"
              ELSE IF phase = "changed" THEN "flushed"
              ELSE "recommitted"
  /\ UNCHANGED <<added, pre, walk, hist>>

\* database.commit () in which the write of a dirty Datafile fails
CommitFails ==
  /\ phase = "changed"
  /\ \E k \in 1..Len(files) :
       /\ files[k].dirty
       /\ Becomes(commitFailing(Db, k), "commit", Before(k))
  /\ phase' = "failed"
  /\ UNCHANGED <<added, pre, walk, hist>>

NextCommit ==
  \/ OpenStore
  \/ Change
  \/ Commit
  \/ CommitFails

SpecCommit == InitCommit /\ [][NextCommit]_vars

\* the last call, a commit, wrote tags.data
WroteTags == \E i \in 1..Len(last.out) : last.out[i] = TagsData

\* C22: commit () writes tags.data if and only if the Tag Index changed since
\* it was last loaded from or written to tags.data: a commit right after an
\* open that parsed the sidecar, and a commit right after a commit, do not
\* write it; a commit after a call that changed the counts does.
C22_TagsWrittenIffDirty ==
  /\ (phase = "committed" /\ ~Rejected(pre.tagsFile)) => ~WroteTags
  /\ phase = "recommitted" => ~WroteTags
  /\ (phase = "flushed" /\ tags # pre.tags) => WroteTags

\* the lines of the last Datafile before position k that is dirty and named n
RECURSIVE LastWritten(_, _, _, _)
LastWritten(fs, dk, n, k) ==
  IF k = 0 THEN IF n \in DOMAIN dk THEN <<dk[n]>> ELSE <<>>
  ELSE IF fs[k].dirty /\ fs[k].name = n THEN <<fs[k].lines>>
  ELSE LastWritten(fs, dk, n, k - 1)

\* C30: within one commit (), tags.data is written only after every Datafile
\* was committed; when the commit of a Datafile fails the error reaches the
\* caller, the Datafiles later in the list and tags.data are not written by
\* the call, and every file written earlier holds its complete new contents.
C30_TagsLastAndFailureStops ==
  /\ (last.op = "commit" /\ last.thrown = NoError)
       => /\ \A i \in 1..Len(last.out) : last.out[i] = TagsData => i = Len(last.out)
          /\ \A i \in 1..Len(last.a.files) :
               last.a.files[i].dirty
                 => /\ \E j \in 1..Len(last.out) : last.out[j].name = last.a.files[i].name
                    /\ ~files[i].dirty
  /\ phase = "failed"
       => /\ last.thrown # NoError
          /\ ~WroteTags
          /\ tagsFile = last.a.tagsFile
          /\ \A i \in 1..Len(files) : i >= last.a.at => files[i] = last.a.files[i]
          /\ Len(last.out) = Cardinality({i \in 1..(last.a.at - 1) : last.a.files[i].dirty})
          /\ \A n \in Months :
               LastWritten(last.a.files, last.a.disk, n, last.a.at - 1)
                 = (IF n \in DOMAIN disk THEN <<disk[n]>> ELSE <<>>)

C30_Witness ==
  /\ phase = "failed"
  /\ last.a.at > 1
  /\ last.out # <<>>
  /\ modified

\* the lines the store holds, as a set
StoredSet == BagToSet(LinesBag(Snapshot(Db).lines))

\* C23: after any sequence of addInterval, deleteInterval and modifyInterval
\* calls, getLatestEntry () is "" when the store holds no line, and otherwise
\* a stored line whose start is at or after the start of every stored line.
C23_LatestEntryIsMostRecent ==
  IF StoredSet = {} THEN getLatestEntry(files, disk) = <<>>
  ELSE /\ getLatestEntry(files, disk) \in StoredSet
       /\ \A line \in StoredSet : line[1] <= getLatestEntry(files, disk)[1]

\* ----------------------------------------------------------------- SpecFind
\* findDatafile on the Datafile lists that Database::initializeDatafiles
\* builds: one Datafile per month that has a file, ascending.
FindMonths == 4

FindStarts == MonthStart(1) .. (MonthStart(FindMonths + 1) - 1)

InitFind ==
  /\ \E ms \in SUBSET (1..FindMonths) :
       Is(initialize(Location([m \in ms |-> <<>>], toJson(NoTags))), "open", EmptyInterval)
  /\ phase = "none"
  /\ added = EmptyBag
  /\ pre = NoSnapshot
  /\ walk = NoWalk
  /\ hist = <<>>

\* findDatafile (range, &_files) for a range with the given start
FindDatafile ==
  /\ phase = "none"
  /\ \E start \in FindStarts :
       Becomes([Db EXCEPT !.out = <<findDatafile([start |-> start, end |-> 0], files)>>],
               "findDatafile", [start |-> start, end |-> 0, tags |-> {}])
  /\ phase' = "found"
  /\ UNCHANGED <<added, pre, walk, hist>>

SpecFind == InitFind /\ [][FindDatafile]_vars

\* std::lower_bound over the ranges of the Datafiles: the position of the
\* Datafile whose range contains the start, or else the position after the
\* Datafiles whose range ends at or before the start
LowerBoundPosition(fs, start) ==
  Cardinality({i \in 1..Len(fs) : DatafileRange(fs[i].name).end <= start}) + 1

\* C24: on a Datafile list sorted ascending by month, findDatafile returns the
\* position std::lower_bound would return: the Datafile whose range contains
\* the start, and otherwise the position right after the newest Datafile
\* whose range ends at or before the start (the front if there is none).
C24_FindIsLowerBound ==
  phase = "found" => last.out[1] = LowerBoundPosition(files, last.a.start)

\* ---------------------------------------------------------------- SpecRoute
\* A few calls of addInterval, deleteInterval and modifyInterval with untagged
\* intervals on a store that starts empty.
MaxCalls == 4

RoutedIntervals == ClosedIntervals(Instants, {{}})

RouteAdd ==
  /\ Len(journal) < MaxCalls
  /\ \E iv \in RoutedIntervals : Becomes(addInterval(Db, iv), "add", iv)
  /\ UNCHANGED <<phase, added, pre, walk, hist>>

RouteDelete ==
  /\ Len(journal) < MaxCalls
  /\ \E iv \in RoutedIntervals : Becomes(deleteInterval(Db, iv), "delete", iv)
  /\ UNCHANGED <<phase, added, pre, walk, hist>>

RouteModify ==
  /\ Len(journal) < MaxCalls
  /\ \E from \in RoutedIntervals, to \in RoutedIntervals :
       Becomes(modifyInterval(Db, from, to), "modify", [from |-> from, to |-> to])
  /\ UNCHANGED <<phase, added, pre, walk, hist>>

NextRoute ==
  \/ RouteAdd
  \/ RouteDelete
  \/ RouteModify

SpecRoute == InitModify /\ [][NextRoute]_vars

\* every line of every Datafile starts within the range of the Datafile
LinesInRange(fs, dk) ==
  \A i \in 1..Len(fs) : \A j \in 1..Len(allLines(fs[i], dk)) :
    startsWithin(FromSerialization(allLines(fs[i], dk)[j]), DatafileRange(fs[i].name))

\* how often a line is held by the Datafiles whose range contains `start`
HeldInMonth(fs, dk, line, start) ==
  LET held == { <<i, j>> \in (1..Len(fs)) \X (1..(MaxCalls + 1)) :
                  /\ startsWithin([start |-> start, end |-> 0], DatafileRange(fs[i].name))
                  /\ j <= Len(allLines(fs[i], dk))
                  /\ allLines(fs[i], dk)[j] = line }
  IN  Cardinality(held)

\* C25: every line held by a Datafile starts within the range of that
\* Datafile: addInterval (iv) and the add half of modifyInterval put the line
\* of iv into a Datafile of the month of iv.start, and modifyInterval removes
\* the old line from the Datafiles of the old month.
C25_LinesRoutedByMonth ==
  [][/\ LinesInRange(files', disk')
     /\ last'.op = "add"
          => HeldInMonth(files', disk', Serialize(last'.a), last'.a.start)
               = HeldInMonth(files, disk, Serialize(last'.a), last'.a.start) + 1
     /\ (last'.op = "modify" /\ last'.a.to # last'.a.from)
          => /\ HeldInMonth(files', disk', Serialize(last'.a.to), last'.a.to.start)
                  = HeldInMonth(files, disk, Serialize(last'.a.to), last'.a.to.start) + 1
             /\ HeldInMonth(files, disk, Serialize(last'.a.from), last'.a.from.start) > 0
                  => HeldInMonth(files', disk', Serialize(last'.a.from), last'.a.from.start)
                       = HeldInMonth(files, disk, Serialize(last'.a.from), last'.a.from.start) - 1
    ]_vars

\* the forward (reverse) iterator differs from end () (rend ())
ForwardValid(fs, dk, it) == it.fi # 0 => it.li \in 1..Len(LinesAt(fs, dk, it.fi))
ReverseValid(fs, dk, it) ==
  it.fi # Len(fs) + 1 => it.li \in 1..Len(LinesAt(fs, dk, it.fi))

\* C26: an iterator obtained from begin () or rbegin () and advanced any
\* number of times equals end () (rend ()) or points at a line: when the
\* outer cursor is not at the end of the file list, the inner cursor is not
\* at the end of its line list; also with empty Datafiles in the list.
C26_IteratorPointsAtLine ==
  /\ phase = "forward" => ForwardValid(files, disk, walk.it)
  /\ phase = "reverse" => ReverseValid(files, disk, walk.it)

C26_Witness ==
  /\ phase = "forward"
  /\ Len(files) = 3
  /\ allLines(files[2], disk) = <<>>
  /\ Len(walk.fwd) = 1
  /\ walk.it.fi = 1

\* C27: a traversal from begin () (rbegin ()) equals end () (rend ()) after
\* exactly N increments, N the number of lines of all Datafiles, and has then
\* visited every line once; ++ on an iterator equal to end () leaves it equal
\* to end (); empty () is true exactly when N = 0.
C27_TraversalTakesNSteps ==
  /\ empty(files, disk) <=> TotalLines(files, disk) = 0
  /\ phase = "forward"
       => /\ iteratorEq(walk.it, end(files, disk))
               <=> Len(walk.fwd) = TotalLines(files, disk)
          /\ iteratorEq(walk.it, end(files, disk))
               => /\ BagOfSeq(walk.fwd) = LinesBag(Snapshot(Db).lines)
                  /\ iteratorEq(iteratorInc(files, disk, walk.it), end(files, disk))
  /\ phase = "reverse"
       => /\ reverseEq(files, walk.it, rend(files, disk))
               <=> Len(walk.rev) = TotalLines(files, disk)
          /\ reverseEq(files, walk.it, rend(files, disk))
               => /\ BagOfSeq(walk.rev) = LinesBag(Snapshot(Db).lines)
                  /\ reverseEq(files, reverseInc(files, disk, walk.it), rend(files, disk))

C27_Witness ==
  /\ phase = "reverse"
  /\ reverseEq(files, walk.it, rend(files, disk))
  /\ Len(walk.rev) = 2
  /\ \E i \in 1..Len(files) : allLines(files[i], disk) = <<>>

\* --------------------------------------------------------------- SpecImport
\* "timew import" of up to MaxImport intervals into a store that starts
\* empty, then "timew undo".
MaxImport == 3

Imports == UNION { [1..k -> Intervals] : k \in 1..MaxImport }

\* timew import
Import ==
  /\ phase = "setup"
  /\ \E intervals \in Imports : Becomes(CmdImport(Db, intervals), "import", intervals)
  /\ phase' = "imported"
  /\ pre' = Snapshot(Db)
  /\ hist' = journal
  /\ UNCHANGED <<added, walk>>

\* database.journal ().undo ()
ImportUndo ==
  /\ phase = "imported"
  /\ last.thrown = NoError
  /\ Becomes(undo(Db), "undo", last.a)
  /\ phase' = "undone"
  /\ UNCHANGED <<added, pre, walk, hist>>

\* the inverse of the records that undo returned, applied to the store
ImportRevert ==
  /\ phase = "undone"
  /\ Becomes(applyInverse(Db, last.out), "revert", last.a)
  /\ phase' = "reverted"
  /\ UNCHANGED <<added, pre, walk, hist>>

NextImport ==
  \/ Import
  \/ ImportUndo
  \/ ImportRevert

SpecImport == InitModify /\ [][NextImport]_vars

\* the add records of the intervals, in their order
AddRecords(intervals) == [i \in 1..Len(intervals) |-> AddRecord(intervals[i])]

C29_ImportClosesTransaction == phase = "imported" => ~txn.open

\* ------------------------------------------------------------- SpecDiscover
\* Database::initializeDatafiles on a location whose directory holds some of
\* a few entries; every entry has at least 8 characters.
DirectoryEntries ==
  {<<"2", "0", "1", "6", "-", "0", "2", ".", "d", "a", "t", "a">>,
   <<"2", "0", "1", "6", "-", "0", "3", ".", "d", "a", "t", "a">>,
   <<"2", "0", "1", "5", "-", "1", "2", ".", "d", "a", "t", "a">>,
   <<"t", "a", "g", "s", ".", "d", "a", "t", "a">>,
   <<"u", "n", "d", "o", ".", "d", "a", "t", "a">>,
   <<"a", "b", "c", "d", "-", "e", "f", ".", "d", "a", "t", "a">>,
   <<"x", "2", "0", "1", "6", "-", "0", "1", ".", "d", "a", "t", "a">>,
   <<".", "d", "a", "t", "a", "-", "0", "2", ".", "d", "a", "t", "a">>}

InitDiscover ==
  /\ \E entries \in SUBSET DirectoryEntries :
       Is(Location(<<>>, MissingFile), "list", entries)
  /\ phase = "closed"
  /\ added = EmptyBag
  /\ pre = NoSnapshot
  /\ walk = NoWalk
  /\ hist = <<>>

\* initializeDatafiles (): last.out is the names of _files
Discover ==
  /\ phase = "closed"
  /\ Becomes([Db EXCEPT !.out = discoverDatafiles(last.a)], "initializeDatafiles", last.a)
  /\ phase' = "discovered"
  /\ UNCHANGED <<added, pre, walk, hist>>

SpecDiscover == InitDiscover /\ [][Discover]_vars

Digits == {"0", "1", "2", "3", "4", "5", "6", "7", "8", "9"}

\* the name has the form YYYY-MM.data
IsMonthFile(filename) ==
  /\ Len(filename) = 12
  /\ \A i \in {1, 2, 3, 4, 6, 7} : filename[i] \in Digits
  /\ filename[5] = "-"
  /\ SubSeq(filename, 8, 12) = DotData

\* C31: at discovery a directory entry becomes a Datafile only if its name
\* has the form YYYY-MM.data; every other entry, tags.data and undo.data
\* included, is ignored, and the accepted entries are listed in ascending
\* month order.
C31_OnlyMonthFilesDiscovered ==
  phase = "discovered"
    => /\ \A i \in 1..Len(last.out) : IsMonthFile(last.out[i])
       /\ \A i \in 1..Len(last.out), j \in 1..Len(last.out) :
            i < j => SeqLess(Codes(SubSeq(last.out[i], 1, 7)), Codes(SubSeq(last.out[j], 1, 7)))

\* C32: deleteInterval (iv) never changes the Datafile list: files () after
\* the call equals files () before it, also when no Datafile covers iv.start
\* or iv is not stored.
C32_DeleteKeepsFileList ==
  [][last'.op = "delete" => FileNames(files') = FileNames(files)]_vars

====
